---- MODULE Spec2Model ----
(***************************************************************************)
(* A model of the WebSocket server of src/server.js: the frame codec       *)
(* (unmask, encodeMessage, the decode step), the WebSocketConnection       *)
(* object (its socket 'data' and 'close' handlers, send) and the peers     *)
(* that drive it.                                                          *)
(*                                                                         *)
(* Buffers are sequences of bytes (0..255), indexed from 1 here and from 0 *)
(* in the source.  Strings are sequences of UTF-16 code units, as in       *)
(* JavaScript.                                                             *)
(***************************************************************************)
EXTENDS Integers, Sequences, FiniteSets, TLC

(***************************************************************************)
(* Bounds of the model.                                                    *)
(***************************************************************************)
MaxOps == 3            \* frames sent by peers, send calls and socket 'close'
                       \* notifications, all connections together
MaxUnmaskLen == 5      \* longest payload of the exhaustive unmask inputs
MaxKeySeed == 5        \* the nonces behind the sec-websocket-key values are
                       \* drawn with two seeds in 0 .. MaxKeySeed

(***************************************************************************)
(* Bit operations on non-negative integers: JavaScript's |, & and ^ on the *)
(* values the source applies them to (all below 2^31).                     *)
(***************************************************************************)
RECURSIVE BitOr(_, _)
BitOr(a, b) ==
  IF a = 0 THEN b
  ELSE IF b = 0 THEN a
  ELSE (IF (a % 2) + (b % 2) > 0 THEN 1 ELSE 0) + 2 * BitOr(a \div 2, b \div 2)

RECURSIVE BitAnd(_, _)
BitAnd(a, b) ==
  IF a = 0 \/ b = 0 THEN 0
  ELSE (IF (a % 2) + (b % 2) = 2 THEN 1 ELSE 0) + 2 * BitAnd(a \div 2, b \div 2)

RECURSIVE BitXor(_, _)
BitXor(a, b) ==
  IF a = 0 THEN b
  ELSE IF b = 0 THEN a
  ELSE (((a % 2) + (b % 2)) % 2) + 2 * BitXor(a \div 2, b \div 2)

OP_CODES == [TEXT |-> 1, BINARY |-> 2, CLOSE |-> 8, PING |-> 9, PONG |-> 10]

OpcodeValues == {OP_CODES.TEXT, OP_CODES.BINARY, OP_CODES.CLOSE,
                 OP_CODES.PING, OP_CODES.PONG}

(***************************************************************************)
(* unmask(maskBytes, data): a new buffer of data.length bytes, byte i      *)
(* being maskBytes[i % 4] ^ data[i] (i from 0).                            *)
(***************************************************************************)
unmaskWrongIndex(maskBytes, data) ==
  [i \in 1 .. Len(data) |-> BitXor(maskBytes[(i % 4) + 1], data[i])]

unmask(maskBytes, data) ==
  [i \in 1 .. Len(data) |-> BitXor(maskBytes[((i - 1) % 4) + 1], data[i])]

(***************************************************************************)
(* Buffer.writeUInt8(value, offset) and Buffer.writeUInt16BE(value,        *)
(* offset) check their value: a value outside 0..255 (0..65535) makes the  *)
(* call throw and nothing is written.                                      *)
(***************************************************************************)
UInt8Ok(value) == value >= 0 /\ value <= 255

UInt16BE(value) == << value \div 256, value % 256 >>

(***************************************************************************)
(* encodeMessage(opcode, payload).  The result is a record: threw = FALSE  *)
(* and buf the buffer returned, or threw = TRUE when a write of the header *)
(* throws, in which case nothing is returned (buf is empty).               *)
(***************************************************************************)
encodeMessageMasked(opcode, payload) ==
  LET b1 == BitOr(128, opcode)
      length == Len(payload)
  IN  IF length < 126
        THEN [threw |-> FALSE, buf |-> << b1, BitOr(128, length) >> \o payload]
      ELSE IF length < 65536
        THEN [threw |-> FALSE,
              buf |-> << b1, BitOr(128, 126) >> \o UInt16BE(length) \o payload]
      ELSE [threw |-> TRUE, buf |-> << >>]

encodeMessage(opcode, payload) ==
  LET b1 == BitOr(128, opcode)
      length == Len(payload)
  IN  IF length < 126
        THEN [threw |-> FALSE, buf |-> << b1, BitOr(0, length) >> \o payload]
      ELSE IF length < 65536
        THEN [threw |-> FALSE,
              buf |-> << b1, BitOr(0, 126) >> \o UInt16BE(length) \o payload]
      ELSE \* b2 = 127; writeUInt8(0, 2); then writeUInt8(length, 6), which
           \* throws unless length is an 8-bit value, and length >= 65536
           \* here; bytes 3..5 and 7..9 of the header are written nowhere
           [threw |-> ~UInt8Ok(length), buf |-> << >>]

(***************************************************************************)
(* The decode step of the frame codec, tryDecodeFrame(buffer): one frame   *)
(* and the bytes it spans, or "incomplete" with nothing consumed.  An      *)
(* 8-byte length whose high 4 bytes are not zero is rejected ("error").    *)
(* The opcode is not validated.                                            *)
(***************************************************************************)
Incomplete == [status |-> "incomplete", consumed |-> 0, fin |-> 0, opcode |-> 0,
               payload |-> << >>]

DecodeError == [status |-> "error", consumed |-> 0, fin |-> 0, opcode |-> 0,
                payload |-> << >>]

\* the frame of `buffer` whose length field ends before byte idx + 1 and
\* whose payload is `length` bytes long
FrameAt(buffer, idx, length) ==
  LET fin == buffer[1] \div 128
      opcode == BitAnd(buffer[1], 15)
      mask == buffer[2] \div 128
      start == IF mask = 1 THEN idx + 4 ELSE idx
  IN  IF Len(buffer) < start + length THEN Incomplete
      ELSE LET raw == SubSeq(buffer, start + 1, start + length)
           IN  [status |-> "frame", consumed |-> start + length, fin |-> fin,
                opcode |-> opcode,
                payload |-> IF mask = 1
                              THEN unmask(SubSeq(buffer, idx + 1, idx + 4), raw)
                              ELSE raw]

tryDecodeFrame(buffer) ==
  IF Len(buffer) < 2 THEN Incomplete
  ELSE LET lengthField == BitAnd(buffer[2], 127)
       IN  IF lengthField < 126 THEN FrameAt(buffer, 2, lengthField)
           ELSE IF lengthField = 126
             THEN IF Len(buffer) < 4 THEN Incomplete
                  ELSE FrameAt(buffer, 4, buffer[3] * 256 + buffer[4])
           ELSE IF Len(buffer) < 10 THEN Incomplete
           ELSE IF \E i \in 3 .. 6 : buffer[i] # 0 THEN DecodeError
           ELSE IF buffer[7] >= 128 THEN Incomplete \* 2^31 bytes and more
           ELSE FrameAt(buffer, 10,
                        ((buffer[7] * 256 + buffer[8]) * 256 + buffer[9]) * 256
                          + buffer[10])

(***************************************************************************)
(* What a client puts on the wire for one message: the frame with the mask *)
(* bit set, the 4-byte key after the length field and the payload masked.  *)
(* ClientMask turns an unmasked frame (the encoder's output) into that.    *)
(***************************************************************************)
HeaderLen(frame) ==
  LET lengthField == BitAnd(frame[2], 127)
  IN  IF lengthField < 126 THEN 2 ELSE IF lengthField = 126 THEN 4 ELSE 10

ClientMask(key, frame) ==
  LET h == HeaderLen(frame)
  IN  << frame[1], BitOr(128, frame[2]) >> \o SubSeq(frame, 3, h) \o key
        \o unmask(key, SubSeq(frame, h + 1, Len(frame)))

(***************************************************************************)
(* The codec on its own: an opcode, a payload and a mask key are drawn,    *)
(* then the codec's functions are applied to them step by step.            *)
(***************************************************************************)
VARIABLES codec

\* the payload of `len` bytes whose byte i (from 0) is (a * i + b) mod 256
Payload(len, a, b) == [i \in 1 .. len |-> (a * (i - 1) + b) % 256]

Patterns == { << 0, 0 >>, << 1, 0 >>, << 7, 250 >>, << 0, 255 >> }

MaskKeys == { << 0, 0, 0, 0 >>, << 55, 250, 33, 61 >>, << 1, 2, 4, 8 >>,
              << 255, 255, 255, 255 >> }

SmallLengths == (0 .. MaxUnmaskLen) \cup {125, 126, 127}

BigLengths == {65535, 65536}

CodecInputs ==
  { [opcode |-> o, payload |-> Payload(l, p[1], p[2]), key |-> k] :
      o \in OpcodeValues, l \in SmallLengths, p \in Patterns, k \in MaskKeys }
  \cup
  { [opcode |-> o, payload |-> Payload(l, 7, 250), key |-> << 55, 250, 33, 61 >>] :
      o \in {OP_CODES.TEXT, OP_CODES.BINARY}, l \in BigLengths }

NoResult == [threw |-> FALSE, buf |-> << >>]


(***************************************************************************)
(* new Buffer(str, 'utf8'): the UTF-8 bytes of a JavaScript string, given  *)
(* as its UTF-16 code units.  A surrogate pair makes one 4-byte sequence,  *)
(* a lone surrogate is replaced by U+FFFD (EF BF BD).                      *)
(***************************************************************************)
IsHighSurrogate(u) == u >= 55296 /\ u <= 56319

IsLowSurrogate(u) == u >= 56320 /\ u <= 57343

Utf8Of(cp) ==
  IF cp < 128 THEN << cp >>
  ELSE IF cp < 2048 THEN << 192 + (cp \div 64), 128 + (cp % 64) >>
  ELSE IF cp < 65536
    THEN << 224 + (cp \div 4096), 128 + ((cp \div 64) % 64), 128 + (cp % 64) >>
  ELSE << 240 + (cp \div 262144), 128 + ((cp \div 4096) % 64),
          128 + ((cp \div 64) % 64), 128 + (cp % 64) >>

RECURSIVE Utf8Encode(_)
Utf8Encode(units) ==
  IF units = << >> THEN << >>
  ELSE LET u == Head(units)
       IN  IF IsHighSurrogate(u) /\ Len(units) >= 2 /\ IsLowSurrogate(units[2])
             THEN Utf8Of(65536 + (u - 55296) * 1024 + (units[2] - 56320))
                    \o Utf8Encode(Tail(Tail(units)))
           ELSE IF IsHighSurrogate(u) \/ IsLowSurrogate(u)
             THEN << 239, 191, 189 >> \o Utf8Encode(Tail(units))
           ELSE Utf8Of(u) \o Utf8Encode(Tail(units))

(***************************************************************************)
(* The handshake key.  Strings are sequences of character codes.           *)
(* hashWebSocketKey(key) is the base64 text of the SHA-1 digest of the     *)
(* ASCII bytes of key + KEY_SUFFIX.  SHA-1 works on 32-bit words, kept     *)
(* here as pairs << high 16 bits, low 16 bits >>.                          *)
(***************************************************************************)
\* '258EAFA5-E914-47DA-95CA-C5ABODC85B11': the 29th character is the
\* letter O (79)
KEY_SUFFIX ==
  << 50, 53, 56, 69, 65, 70, 65, 53, 45, 69, 57, 49, 52, 45, 52, 55, 68, 65,
     45, 57, 53, 67, 65, 45, 67, 53, 65, 66, 79, 68, 67, 56, 53, 66, 49, 49 >>

WXor(a, b) == << BitXor(a[1], b[1]), BitXor(a[2], b[2]) >>

WAnd(a, b) == << BitAnd(a[1], b[1]), BitAnd(a[2], b[2]) >>

WOr(a, b) == << BitOr(a[1], b[1]), BitOr(a[2], b[2]) >>

WNot(a) == << 65535 - a[1], 65535 - a[2] >>

WAdd(a, b) ==
  LET lo == a[2] + b[2]
      hi == a[1] + b[1] + (lo \div 65536)
  IN  << hi % 65536, lo % 65536 >>

\* rotation to the left by n bits, 0 <= n < 32
RotL(w, n) ==
  LET v == IF n >= 16 THEN << w[2], w[1] >> ELSE w
      m == n % 16
  IN  IF m = 0 THEN v
      ELSE << ((v[1] * (2 ^ m)) % 65536) + (v[2] \div (2 ^ (16 - m))),
              ((v[2] * (2 ^ m)) % 65536) + (v[1] \div (2 ^ (16 - m))) >>

\* the message, a 1 bit, zero bits up to 56 bytes mod 64, then the length
\* of the message in bits as 8 bytes (messages here are below 8192 bytes)
Sha1Pad(bytes) ==
  LET zeros == (64 - ((Len(bytes) + 9) % 64)) % 64
      bits == Len(bytes) * 8
  IN  bytes \o << 128 >> \o [i \in 1 .. zeros |-> 0]
        \o << 0, 0, 0, 0, 0, 0, bits \div 256, bits % 256 >>

\* the 16 words of block number blk (from 0) of the padded message
Sha1Block(padded, blk) ==
  [j \in 1 .. 16 |->
     LET at == blk * 64 + (j - 1) * 4
     IN  << padded[at + 1] * 256 + padded[at + 2],
            padded[at + 3] * 256 + padded[at + 4] >>]

RECURSIVE Sha1Schedule(_)
Sha1Schedule(w) ==
  IF Len(w) >= 80 THEN w
  ELSE LET t == Len(w) + 1
       IN  Sha1Schedule(Append(w,
             RotL(WXor(WXor(w[t - 3], w[t - 8]), WXor(w[t - 14], w[t - 16])), 1)))

Sha1F(t, b, c, d) ==
  IF t < 20 THEN WOr(WAnd(b, c), WAnd(WNot(b), d))
  ELSE IF t < 40 THEN WXor(WXor(b, c), d)
  ELSE IF t < 60 THEN WOr(WOr(WAnd(b, c), WAnd(b, d)), WAnd(c, d))
  ELSE WXor(WXor(b, c), d)

Sha1K(t) ==
  IF t < 20 THEN << 23170, 31129 >>
  ELSE IF t < 40 THEN << 28377, 60321 >>
  ELSE IF t < 60 THEN << 36635, 48348 >>
  ELSE << 51810, 49622 >>

\* rounds t .. 79 on the working state s = << a, b, c, d, e >> (Len(s) is
\* looked at so that the state is computed round by round)
RECURSIVE Sha1Rounds(_, _, _)
Sha1Rounds(t, s, w) ==
  IF t >= 80 \/ Len(s) # 5 THEN s
  ELSE LET temp == WAdd(WAdd(WAdd(WAdd(RotL(s[1], 5), Sha1F(t, s[2], s[3], s[4])),
                                  s[5]), Sha1K(t)), w[t + 1])
       IN  Sha1Rounds(t + 1, << temp, s[1], RotL(s[2], 30), s[3], s[4] >>, w)

RECURSIVE Sha1Blocks(_, _, _)
Sha1Blocks(padded, blk, h) ==
  IF blk * 64 >= Len(padded) THEN h
  ELSE LET s == Sha1Rounds(0, h, Sha1Schedule(Sha1Block(padded, blk)))
       IN  Sha1Blocks(padded, blk + 1, [i \in 1 .. 5 |-> WAdd(h[i], s[i])])

\* the 20 bytes of the digest
Sha1(bytes) ==
  LET h == Sha1Blocks(Sha1Pad(bytes), 0,
                      << << 26437, 8961 >>, << 61389, 43913 >>, << 39098, 56574 >>,
                         << 4146, 21622 >>, << 50130, 57840 >> >>)
  IN  [i \in 1 .. 20 |->
         LET half == h[((i - 1) \div 4) + 1][(((i - 1) % 4) \div 2) + 1]
         IN  IF i % 2 = 1 THEN half \div 256 ELSE half % 256]

\* the characters A-Z a-z 0-9 + / of base64, by value
Base64Char(v) ==
  IF v < 26 THEN 65 + v
  ELSE IF v < 52 THEN 97 + (v - 26)
  ELSE IF v < 62 THEN 48 + (v - 52)
  ELSE IF v = 62 THEN 43
  ELSE 47

RECURSIVE Base64(_)
Base64(bytes) ==
  IF bytes = << >> THEN << >>
  ELSE IF Len(bytes) = 1
    THEN << Base64Char(bytes[1] \div 4), Base64Char((bytes[1] % 4) * 16), 61, 61 >>
  ELSE IF Len(bytes) = 2
    THEN << Base64Char(bytes[1] \div 4),
            Base64Char((bytes[1] % 4) * 16 + (bytes[2] \div 16)),
            Base64Char((bytes[2] % 16) * 4), 61 >>
  ELSE << Base64Char(bytes[1] \div 4),
          Base64Char((bytes[1] % 4) * 16 + (bytes[2] \div 16)),
          Base64Char((bytes[2] % 16) * 4 + (bytes[3] \div 64)),
          Base64Char(bytes[3] % 64) >> \o Base64(SubSeq(bytes, 4, Len(bytes)))

\* shah1.update(key + KEY_SUFFIX, 'ascii'): the string that is hashed
hashInput(key) == key \o KEY_SUFFIX

hashWebSocketKey(key) == Base64(Sha1(hashInput(key)))

\* the sec-websocket-key of the RFC 6455 example, 'dGhlIHNhbXBsZSBub25jZQ=='
SampleKey ==
  << 100, 71, 104, 108, 73, 72, 78, 104, 98, 88, 66, 115, 90, 83, 66, 117, 98,
     50, 53, 106, 90, 81, 61, 61 >>

\* the keys clients send: the base64 text of a 16-byte nonce
HandshakeKeys ==
  {SampleKey} \cup {Base64(Payload(16, a, b)) : a, b \in 0 .. MaxKeySeed}

\* the 101 response the constructor writes, before and after ${key}
ResponseHead ==
  << 72, 84, 84, 80, 47, 49, 46, 49, 32, 49, 48, 49, 32, 87, 101, 98, 32,
     83, 111, 99, 107, 101, 116, 32, 80, 114, 111, 116, 111, 99, 111, 108,
     32, 72, 97, 110, 100, 115, 104, 97, 107, 101, 32, 13, 10, 32, 32, 32,
     32, 32, 32, 85, 112, 103, 114, 97, 100, 101, 58, 32, 87, 101, 98, 83,
     111, 99, 107, 101, 116, 32, 13, 10, 32, 32, 32, 32, 32, 32, 67, 111,
     110, 110, 101, 99, 116, 105, 111, 110, 58, 32, 85, 112, 103, 114, 97,
     100, 101, 32, 13, 10, 32, 32, 32, 32, 32, 32, 115, 101, 99, 45, 119,
     101, 98, 115, 111, 99, 107, 101, 116, 45, 97, 99, 99, 101, 112, 116,
     58, 32 >>

ResponseTail ==
  << 10, 32, 32, 32, 32, 32, 32, 13, 10, 13, 10 >>

(***************************************************************************)
(* hs follows one call of hashWebSocketKey: the key it is given, the       *)
(* string handed to the hash, the value it returns.                        *)
(***************************************************************************)
VARIABLES hs

HsIdle == [stage |-> "idle", key |-> << >>, hashed |-> << >>, accept |-> << >>]

(***************************************************************************)
(* The connections.  Conn is the set of connections the listener accepts;  *)
(* `created` holds those whose WebSocketConnection exists.                 *)
(*   buffer, closed   the object's fields                                  *)
(*   events           the events the object has emitted, in order          *)
(*   written          the socket.write calls made on its socket, in order  *)
(*   wire             bytes the peer has sent that no read has delivered   *)
(*   frames           the frames the peer has sent, in order               *)
(*   signals          the number of socket 'close' notifications received  *)
(*   nSends           the number of send calls made, all connections       *)
(*   lastSend         the last send call: its connection, its argument and *)
(*                    how it ended ("ok" when it returned, else the error  *)
(*                    it threw)                                            *)
(***************************************************************************)
VARIABLES created, buffer, closed, events, written, wire, frames, signals,
          nSends, lastSend

connVars == << created, buffer, closed, events, written, wire, frames, signals,
               nSends, lastSend >>

vars == << connVars, codec, hs >>

\* the connections the listener accepts, numbered in the order of arrival
Conn == 1 .. 2

DataEvent(opcode, payload) ==
  [type |-> "data", opcode |-> opcode, code |-> 0, payload |-> payload]

CloseEvent(code) ==
  [type |-> "close", opcode |-> 0, code |-> code, payload |-> << >>]

Handshake(key) ==
  [kind |-> "handshake", bytes |-> ResponseHead \o key \o ResponseTail]

\* the sec-websocket-key header of the upgrade requests
RequestKeys == {SampleKey}

\* hashWebSocketKey(req.headers['sec-websocket-key']) for each of them
RequestAccept == [reqKey \in RequestKeys |-> hashWebSocketKey(reqKey)]

FrameWrite(bytes) == [kind |-> "frame", bytes |-> bytes]

\* what the application passes to send: a Buffer, a string (UTF-16 code
\* units) or a value that is neither (a number, an object, undefined)
SendObjects ==
  { [kind |-> "buffer", value |-> << 1, 255 >>],
    [kind |-> "string", value |-> << 65, 233, 8364, 55357, 56832 >>],
    [kind |-> "other", value |-> << >>] }

\* an opcode RFC 6455 reserves, not one of OP_CODES
ReservedOpcode == 3

\* the frames the peers send: a message, its mask key, or no key for a
\* frame sent unmasked
PeerMessages ==
  { [opcode |-> OP_CODES.TEXT, payload |-> << 72, 105 >>, masked |-> TRUE],
    [opcode |-> OP_CODES.CLOSE, payload |-> << >>, masked |-> TRUE],
    [opcode |-> OP_CODES.BINARY, payload |-> << 255 >>, masked |-> FALSE],
    [opcode |-> ReservedOpcode, payload |-> << >>, masked |-> FALSE] }

PeerKey == << 55, 250, 33, 61 >>

PeerBytes(m) ==
  LET plain == << 128 + m.opcode, Len(m.payload) >> \o m.payload
  IN  IF m.masked THEN ClientMask(PeerKey, plain) ELSE plain

RECURSIVE Sum(_, _)
Sum(f, S) ==
  IF S = {} THEN 0
  ELSE LET c == CHOOSE x \in S : TRUE IN f[c] + Sum(f, S \ {c})

\* frames sent by the peers, send calls and 'close' notifications so far
Ops == Sum([c \in Conn |-> Len(frames[c]) + signals[c]], Conn) + nSends

NoSend == [conn |-> 0, obj |-> [kind |-> "other", value |-> << >>],
           result |-> "none"]

CodecIdle == [stage |-> "idle", opcode |-> 0, payload |-> << >>,
              key |-> << 0, 0, 0, 0 >>, encoded |-> NoResult, wire |-> << >>,
              decoded |-> Incomplete, once |-> << >>, twice |-> << >>]

Init ==
  /\ created = {}
  /\ buffer = [c \in Conn |-> << >>]
  /\ closed = [c \in Conn |-> FALSE]
  /\ events = [c \in Conn |-> << >>]
  /\ written = [c \in Conn |-> << >>]
  /\ wire = [c \in Conn |-> << >>]
  /\ frames = [c \in Conn |-> << >>]
  /\ signals = [c \in Conn |-> 0]
  /\ nSends = 0
  /\ lastSend = NoSend
  /\ codec = CodecIdle
  /\ hs = HsIdle

(***************************************************************************)
(* new WebSocketConnection(req, socket, upgradeHead), called by the        *)
(* listener for each upgrade request: the handshake response is written,   *)
(* the two socket handlers are registered, buffer and closed are set.      *)
(***************************************************************************)
UpgradeNoHandshake(c, reqKey) ==
  /\ c \in Conn \ created
  /\ c = Cardinality(created) + 1
  /\ created' = created \cup {c}
  /\ buffer' = [buffer EXCEPT ![c] = << >>]
  /\ closed' = [closed EXCEPT ![c] = FALSE]
  /\ UNCHANGED << written, events, wire, frames, signals, nSends, lastSend,
                  codec, hs >>

Upgrade(c, reqKey) ==
  /\ c \in Conn \ created
  /\ c = Cardinality(created) + 1
  /\ created' = created \cup {c}
  /\ LET key == RequestAccept[reqKey]
     IN  written' = [written EXCEPT ![c] = << Handshake(key) >>]
  /\ buffer' = [buffer EXCEPT ![c] = << >>]
  /\ closed' = [closed EXCEPT ![c] = FALSE]
  /\ UNCHANGED << events, wire, frames, signals, nSends, lastSend, codec, hs >>

(***************************************************************************)
(* A peer sends one frame: its bytes are in flight until reads deliver     *)
(* them.                                                                   *)
(***************************************************************************)
PeerSend(c, m) ==
  /\ c \in created
  /\ Ops < MaxOps
  /\ wire' = [wire EXCEPT ![c] = wire[c] \o PeerBytes(m)]
  /\ frames' = [frames EXCEPT ![c] = Append(frames[c], m)]
  /\ UNCHANGED << created, buffer, closed, events, written, signals, nSends,
                  lastSend, codec, hs >>

(***************************************************************************)
(* The socket 'data' handler: the chunk is appended to the buffer, then    *)
(* _processBuffer runs until it returns false.  _processBuffer decodes one *)
(* frame from the front of the buffer: on a complete frame it emits `data` *)
(* with the opcode and the payload, drops the frame's bytes and returns    *)
(* true; otherwise it leaves the buffer alone and returns false.           *)
(***************************************************************************)
processBuffer(buf) ==
  LET r == tryDecodeFrame(buf)
  IN  IF r.status = "frame"
        THEN [more |-> TRUE, buffer |-> SubSeq(buf, r.consumed + 1, Len(buf)),
              emitted |-> << DataEvent(r.opcode, r.payload) >>]
        ELSE [more |-> FALSE, buffer |-> buf, emitted |-> << >>]

RECURSIVE processWhile(_)
processWhile(buf) ==
  LET r == processBuffer(buf)
  IN  IF r.more
        THEN LET rest == processWhile(r.buffer)
             IN  [buffer |-> rest.buffer, emitted |-> r.emitted \o rest.emitted]
        ELSE [buffer |-> r.buffer, emitted |-> r.emitted]

concatReplaces(old, buf) == buf

concat(old, buf) == old \o buf

SocketDataNoCarry(c, n) ==
  /\ c \in created
  /\ n \in 1 .. Len(wire[c])
  /\ LET buf == SubSeq(wire[c], 1, n)
         r == processWhile(concat(buffer[c], buf))
     IN  /\ buffer' = [buffer EXCEPT ![c] = << >>]
         /\ events' = [events EXCEPT ![c] = events[c] \o r.emitted]
         /\ wire' = [wire EXCEPT ![c] = SubSeq(wire[c], n + 1, Len(wire[c]))]
  /\ UNCHANGED << created, closed, written, frames, signals, nSends, lastSend,
                  codec, hs >>

SocketDataShared(c, n) ==
  /\ c \in created
  /\ n \in 1 .. Len(wire[c])
  /\ LET buf == SubSeq(wire[c], 1, n)
         r == processWhile(concat(buffer[c], buf))
     IN  /\ buffer' = [d \in Conn |-> r.buffer]
         /\ events' = [events EXCEPT ![c] = events[c] \o r.emitted]
         /\ wire' = [wire EXCEPT ![c] = SubSeq(wire[c], n + 1, Len(wire[c]))]
  /\ UNCHANGED << created, closed, written, frames, signals, nSends, lastSend,
                  codec, hs >>

SocketData(c, n) ==
  /\ c \in created
  /\ n \in 1 .. Len(wire[c])
  /\ LET buf == SubSeq(wire[c], 1, n)
         r == processWhile(concat(buffer[c], buf))
     IN  /\ buffer' = [buffer EXCEPT ![c] = r.buffer]
         /\ events' = [events EXCEPT ![c] = events[c] \o r.emitted]
         /\ wire' = [wire EXCEPT ![c] = SubSeq(wire[c], n + 1, Len(wire[c]))]
  /\ UNCHANGED << created, closed, written, frames, signals, nSends, lastSend,
                  codec, hs >>

(***************************************************************************)
(* The socket 'close' handler: unless closed is set, `close` is emitted    *)
(* with code 1006 and closed is set.  had_error is not looked at.          *)
(***************************************************************************)
closeGuardAlways(isClosed) == TRUE

closeGuard(isClosed) == ~isClosed

SocketCloseByError(c, had_error) ==
  /\ c \in created
  /\ Ops < MaxOps
  /\ signals' = [signals EXCEPT ![c] = signals[c] + 1]
  /\ IF closeGuard(closed[c])
       THEN /\ events' = [events EXCEPT ![c] =
                           Append(events[c],
                                  CloseEvent(IF had_error THEN 1006 ELSE 1000))]
            /\ closed' = [closed EXCEPT ![c] = TRUE]
       ELSE UNCHANGED << events, closed >>
  /\ UNCHANGED << created, buffer, written, wire, frames, nSends, lastSend,
                  codec, hs >>

SocketCloseNoFlag(c, had_error) ==
  /\ c \in created
  /\ Ops < MaxOps
  /\ signals' = [signals EXCEPT ![c] = signals[c] + 1]
  /\ IF closeGuard(closed[c])
       THEN /\ events' = [events EXCEPT ![c] = Append(events[c], CloseEvent(1006))]
            /\ UNCHANGED closed
       ELSE UNCHANGED << events, closed >>
  /\ UNCHANGED << created, buffer, written, wire, frames, nSends, lastSend,
                  codec, hs >>

SocketClose(c, had_error) ==
  /\ c \in created
  /\ Ops < MaxOps
  /\ signals' = [signals EXCEPT ![c] = signals[c] + 1]
  /\ IF closeGuard(closed[c])
       THEN /\ events' = [events EXCEPT ![c] = Append(events[c], CloseEvent(1006))]
            /\ closed' = [closed EXCEPT ![c] = TRUE]
       ELSE UNCHANGED << events, closed >>
  /\ UNCHANGED << created, buffer, written, wire, frames, nSends, lastSend,
                  codec, hs >>

(***************************************************************************)
(* send(obj).  A Buffer goes out as a BINARY frame, a string as a TEXT     *)
(* frame of its UTF-8 bytes, anything else throws.  _doSend encodes the    *)
(* message and writes the frame to the socket; when the encoder throws,    *)
(* nothing is written and the error reaches the caller.  Neither looks at  *)
(* the closed flag.                                                        *)
(***************************************************************************)
doSend(opcode, payload) ==
  LET e == encodeMessage(opcode, payload)
  IN  IF e.threw THEN [result |-> "encode error", writes |-> << >>]
      ELSE [result |-> "ok", writes |-> << FrameWrite(e.buf) >>]

sendAnything(obj) ==
  IF obj.kind = "buffer" THEN doSend(OP_CODES.BINARY, obj.value)
  ELSE doSend(OP_CODES.TEXT, Utf8Encode(obj.value))

sendSwapped(obj) ==
  IF obj.kind = "buffer" THEN doSend(OP_CODES.TEXT, obj.value)
  ELSE IF obj.kind = "string" THEN doSend(OP_CODES.BINARY, Utf8Encode(obj.value))
  ELSE [result |-> "invalid argument", writes |-> << >>]

send(obj) ==
  IF obj.kind = "buffer" THEN doSend(OP_CODES.BINARY, obj.value)
  ELSE IF obj.kind = "string" THEN doSend(OP_CODES.TEXT, Utf8Encode(obj.value))
  ELSE [result |-> "invalid argument", writes |-> << >>]

Send(c, obj) ==
  /\ c \in created
  /\ Ops < MaxOps
  /\ LET r == send(obj)
     IN  /\ written' = [written EXCEPT ![c] = written[c] \o r.writes]
         /\ lastSend' = [conn |-> c, obj |-> obj, result |-> r.result]
  /\ nSends' = nSends + 1
  /\ UNCHANGED << created, buffer, closed, events, wire, frames, signals,
                  codec, hs >>

Next ==
  \/ \E c \in Conn, reqKey \in RequestKeys : Upgrade(c, reqKey)
  \/ \E c \in Conn, m \in PeerMessages : PeerSend(c, m)
  \/ \E c \in Conn : \E n \in 1 .. Len(wire[c]) : SocketData(c, n)
  \/ \E c \in Conn, had_error \in BOOLEAN : SocketClose(c, had_error)
  \/ \E c \in Conn, obj \in SendObjects : Send(c, obj)

Spec == Init /\ [][Next]_vars

(***************************************************************************)
(* The codec specification: the connections stay as constructed.           *)
(***************************************************************************)
CodecInit ==
  /\ created = {}
  /\ buffer = [c \in Conn |-> << >>]
  /\ closed = [c \in Conn |-> FALSE]
  /\ events = [c \in Conn |-> << >>]
  /\ written = [c \in Conn |-> << >>]
  /\ wire = [c \in Conn |-> << >>]
  /\ frames = [c \in Conn |-> << >>]
  /\ signals = [c \in Conn |-> 0]
  /\ nSends = 0
  /\ lastSend = NoSend
  /\ hs = HsIdle
  /\ \E in \in CodecInputs :
       codec = [stage |-> "input", opcode |-> in.opcode, payload |-> in.payload,
                key |-> in.key, encoded |-> NoResult, wire |-> << >>,
                decoded |-> Incomplete, once |-> << >>, twice |-> << >>]

Encode ==
  /\ codec.stage = "input"
  /\ codec' = [codec EXCEPT !.stage = "encoded",
                            !.encoded = encodeMessage(codec.opcode, codec.payload)]
  /\ UNCHANGED << connVars, hs >>

Mask ==
  /\ codec.stage = "encoded"
  /\ ~codec.encoded.threw
  /\ codec' = [codec EXCEPT !.stage = "masked",
                            !.wire = ClientMask(codec.key, codec.encoded.buf)]
  /\ UNCHANGED << connVars, hs >>

Decode ==
  /\ codec.stage = "masked"
  /\ codec' = [codec EXCEPT !.stage = "decoded",
                            !.decoded = tryDecodeFrame(codec.wire)]
  /\ UNCHANGED << connVars, hs >>

Unmask ==
  /\ codec.stage = "input"
  /\ codec' = [codec EXCEPT !.stage = "unmasked",
                            !.once = unmask(codec.key, codec.payload)]
  /\ UNCHANGED << connVars, hs >>

UnmaskAgain ==
  /\ codec.stage = "unmasked"
  /\ codec' = [codec EXCEPT !.stage = "unmasked twice",
                            !.twice = unmask(codec.key, codec.once)]
  /\ UNCHANGED << connVars, hs >>

CodecNext == Encode \/ Mask \/ Decode \/ Unmask \/ UnmaskAgain

SpecCodec == CodecInit /\ [][CodecNext]_vars

(***************************************************************************)
(* The handshake-key specification: hashWebSocketKey is called with a key; *)
(* the connections and the codec stay as constructed.                      *)
(***************************************************************************)
HandshakeInit ==
  /\ created = {}
  /\ buffer = [c \in Conn |-> << >>]
  /\ closed = [c \in Conn |-> FALSE]
  /\ events = [c \in Conn |-> << >>]
  /\ written = [c \in Conn |-> << >>]
  /\ wire = [c \in Conn |-> << >>]
  /\ frames = [c \in Conn |-> << >>]
  /\ signals = [c \in Conn |-> 0]
  /\ nSends = 0
  /\ lastSend = NoSend
  /\ codec = CodecIdle
  /\ \E key \in HandshakeKeys :
       hs = [stage |-> "key", key |-> key, hashed |-> << >>, accept |-> << >>]

\* shah1.update(key + KEY_SUFFIX, 'ascii')
HashUpdate ==
  /\ hs.stage = "key"
  /\ hs' = [hs EXCEPT !.stage = "updated", !.hashed = hashInput(hs.key)]
  /\ UNCHANGED << connVars, codec >>

\* return shah1.digest('base64')
HashDigest ==
  /\ hs.stage = "updated"
  /\ hs' = [hs EXCEPT !.stage = "digest", !.accept = hashWebSocketKey(hs.key)]
  /\ UNCHANGED << connVars, codec >>

HandshakeNext == HashUpdate \/ HashDigest

SpecHandshake == HandshakeInit /\ [][HandshakeNext]_vars

(***************************************************************************)
(* Properties of the connections, checked under Spec.                      *)
(***************************************************************************)
DataEvents(c) == SelectSeq(events[c], LAMBDA e : e.type = "data")

CloseCount(c) == Cardinality({i \in DOMAIN events[c] : events[c][i].type = "close"})

\* C1: whatever the number of socket 'close' notifications a connection
\* receives, it emits `close` at most once, and exactly once when at least
\* one notification has arrived.
C1_CloseOnce ==
  \A c \in Conn : CloseCount(c) = IF signals[c] > 0 THEN 1 ELSE 0

\* a connection that decoded a CLOSE frame and received two 'close'
\* notifications
C1_Witness ==
  \E c \in created :
    /\ signals[c] >= 2
    /\ CloseCount(c) = 1
    /\ \E i \in DOMAIN events[c] :
         events[c][i].type = "data" /\ events[c][i].opcode = OP_CODES.CLOSE

RECURSIVE BytesOf(_)
BytesOf(ms) == IF ms = << >> THEN << >> ELSE PeerBytes(Head(ms)) \o BytesOf(Tail(ms))

\* C3: the data events of a connection are the frames its peer sent, in
\* order, as far as their bytes have been read; what is left in the buffer
\* and on the wire is exactly the bytes of the frames not yet emitted; the
\* buffer holds no complete frame (decoding it reports incomplete, nothing
\* consumed); and once every byte has been read there is one data event
\* per frame and the buffer is empty.
C3_FramesInOrder ==
  \A c \in Conn :
    LET k == Len(DataEvents(c))
    IN  /\ k <= Len(frames[c])
        /\ \A i \in 1 .. k :
             DataEvents(c)[i] = [type |-> "data", opcode |-> frames[c][i].opcode,
                                 code |-> 0, payload |-> frames[c][i].payload]
        /\ buffer[c] \o wire[c] = BytesOf(SubSeq(frames[c], k + 1, Len(frames[c])))
        /\ tryDecodeFrame(buffer[c]).status = "incomplete"
        /\ tryDecodeFrame(buffer[c]).consumed = 0
        /\ wire[c] = << >> => (k = Len(frames[c]) /\ buffer[c] = << >>)

\* two different frames, read in full, both emitted
C3_Witness ==
  \E c \in created :
    /\ Len(frames[c]) = 2
    /\ frames[c][1] # frames[c][2]
    /\ wire[c] = << >>
    /\ Len(DataEvents(c)) = 2

C5_InvalidArgument ==
  [][(nSends' = nSends + 1 /\ lastSend'.obj.kind = "other")
       => /\ lastSend'.result = "invalid argument"
          /\ written' = written
          /\ buffer' = buffer
          /\ closed' = closed]_vars

C5_Witness ==
  /\ nSends >= 1
  /\ lastSend.obj.kind = "other"
  /\ lastSend.result = "invalid argument"

\* the UTF-8 bytes of the strings the application sends
ExpectedUtf8(units) ==
  IF units = << 65, 233, 8364, 55357, 56832 >>
    THEN << 65, 195, 169, 226, 130, 172, 240, 159, 152, 128 >>
    ELSE << >>

ExpectedFrame(obj) ==
  IF obj.kind = "buffer" THEN << 130, Len(obj.value) >> \o obj.value
  ELSE << 129, Len(ExpectedUtf8(obj.value)) >> \o ExpectedUtf8(obj.value)

\* C6: a send call that returns normally on a connection whose closed flag
\* is clear appends exactly one write to that socket's writes, after all
\* earlier ones: the frame with opcode 2 and the bytes given for a Buffer,
\* with opcode 1 and the string's UTF-8 bytes for a string; no other
\* socket is written to.
C6_SendWritesOneFrame ==
  [][(nSends' = nSends + 1 /\ lastSend'.result = "ok" /\ ~closed[lastSend'.conn])
       => written' = [written EXCEPT ![lastSend'.conn] =
                        Append(@, [kind |-> "frame",
                                   bytes |-> ExpectedFrame(lastSend'.obj)])]]_vars

\* an open connection on which a Buffer, then a string were sent
C6_Witness ==
  \E c \in created :
    /\ ~closed[c]
    /\ Len(written[c]) = 3
    /\ written[c][2].bytes[1] = 130
    /\ written[c][3].bytes[1] = 129

(***************************************************************************)
(* Properties of the codec, checked under SpecCodec.                       *)
(***************************************************************************)
Encoded == codec.stage \in {"encoded", "masked", "decoded"}

\* C7: a frame the encoder returns has bit 7 of byte 0 set (fin), the
\* opcode in the low 4 bits of byte 0, and bit 7 of byte 1 clear (mask).
C7_HeaderBits ==
  (Encoded /\ ~codec.encoded.threw)
    => /\ codec.encoded.buf[1] \div 128 = 1
       /\ codec.encoded.buf[1] % 16 = codec.opcode
       /\ codec.encoded.buf[2] \div 128 = 0

\* a PONG frame with a 126-byte payload has been encoded
C7_Witness ==
  /\ codec.stage = "encoded"
  /\ ~codec.encoded.threw
  /\ codec.opcode = OP_CODES.PONG
  /\ Len(codec.payload) = 126

\* C8: the encoder returns a frame whose length form follows the payload
\* length L: below 126, the length field is L and the payload follows at
\* once; from 126 to 65535, the length field is 126 and the next 2 bytes
\* are L, big-endian; above 65535, the length field is 127 and the next 8
\* bytes are four zero bytes, then L in 4 bytes, big-endian.
C8_LengthForm ==
  Encoded =>
    LET L == Len(codec.payload)
        buf == codec.encoded.buf
    IN  /\ ~codec.encoded.threw
        /\ L < 126 => (buf[2] % 128 = L /\ Len(buf) = 2 + L)
        /\ (126 <= L /\ L <= 65535)
             => (buf[2] % 128 = 126 /\ buf[3] * 256 + buf[4] = L /\ Len(buf) = 4 + L)
        /\ L > 65535
             => /\ buf[2] % 128 = 127
                /\ Len(buf) = 10 + L
                /\ \A i \in 3 .. 6 : buf[i] = 0
                /\ ((buf[7] * 256 + buf[8]) * 256 + buf[9]) * 256 + buf[10] = L

RoundTripLengths == {0, 1, 125, 126, 65535, 65536}

RoundTripCase ==
  /\ codec.opcode \in {OP_CODES.TEXT, OP_CODES.BINARY}
  /\ Len(codec.payload) \in RoundTripLengths

\* C9: for a TEXT or BINARY message whose payload is 0, 1, 125, 126, 65535
\* or 65536 bytes long, the encoder returns a frame, and decoding that
\* frame as a client would send it (masked) gives the opcode and the
\* payload back and consumes the whole frame.
C9_RoundTrip ==
  RoundTripCase =>
    /\ Encoded => ~codec.encoded.threw
    /\ codec.stage = "decoded"
         => /\ codec.decoded.status = "frame"
            /\ codec.decoded.opcode = codec.opcode
            /\ codec.decoded.payload = codec.payload
            /\ codec.decoded.consumed = Len(codec.wire)

\* C10: unmasking with a key twice gives the payload back; the result is
\* as long as the payload; byte i of the result (from 0) is byte i mod 4
\* of the key XOR byte i of the payload.
C10_UnmaskInvolution ==
  codec.stage = "unmasked twice"
    => /\ codec.twice = codec.payload
       /\ Len(codec.once) = Len(codec.payload)
       /\ \A i \in 0 .. Len(codec.payload) - 1 :
            codec.once[i + 1] = BitXor(codec.key[(i % 4) + 1], codec.payload[i + 1])

\* a 5-byte payload unmasked twice with a key that changes it
C10_Witness ==
  /\ codec.stage = "unmasked twice"
  /\ Len(codec.payload) = 5
  /\ codec.key = << 55, 250, 33, 61 >>
  /\ codec.once # codec.payload

\* C11: a read that leaves the connection with fewer bytes than the next
\* frame's header and payload need emits no event and keeps every byte in
\* the buffer, and decoding that buffer reports incomplete with nothing
\* consumed; the read that brings the frame's last byte emits a data event
\* that is the frame decoded from all its bytes at once.
C11_PartialFrame ==
  [][\A c \in Conn :
       Len(wire'[c]) < Len(wire[c]) =>
         LET n == Len(wire[c]) - Len(wire'[c])
             chunk == SubSeq(wire[c], 1, n)
             next == PeerBytes(frames[c][Len(DataEvents(c)) + 1])
             whole == tryDecodeFrame(next)
         IN  /\ whole.status = "frame"
             /\ whole.consumed = Len(next)
             /\ Len(buffer[c]) + n < Len(next) =>
                  /\ tryDecodeFrame(buffer[c] \o chunk).status = "incomplete"
                  /\ tryDecodeFrame(buffer[c] \o chunk).consumed = 0
                  /\ buffer'[c] = buffer[c] \o chunk
                  /\ events'[c] = events[c]
             /\ Len(buffer[c]) + n >= Len(next) =>
                  /\ Len(events'[c]) > Len(events[c])
                  /\ events'[c][Len(events[c]) + 1] =
                       [type |-> "data", opcode |-> whole.opcode, code |-> 0,
                        payload |-> whole.payload]]_vars

\* a frame was emitted after its bytes came in more than one read, and the
\* connection now holds the header and part of the payload of the next one
C11_Witness ==
  \E c \in created :
    /\ Len(DataEvents(c)) = 1
    /\ Len(buffer[c]) > 2
    /\ wire[c] # << >>
    /\ tryDecodeFrame(buffer[c]).status = "incomplete"

(***************************************************************************)
(* Properties of the handshake key, checked under SpecHandshake.           *)
(***************************************************************************)
\* the suffix of RFC 6455, '258EAFA5-E914-47DA-95CA-C5AB0DC85B11'
RfcGuid ==
  << 50, 53, 56, 69, 65, 70, 65, 53, 45, 69, 57, 49, 52, 45, 52, 55, 68, 65,
     45, 57, 53, 67, 65, 45, 67, 53, 65, 66, 48, 68, 67, 56, 53, 66, 49, 49 >>

\* C12: the string handed to the hash is the client's key followed by
\* 258EAFA5-E914-47DA-95CA-C5AB0DC85B11, character for character.
C12_HashedString ==
  hs.stage \in {"updated", "digest"} => hs.hashed = hs.key \o RfcGuid

\* the accept value of the RFC 6455 example, 's3pPLMBiTxaQ9kYGzzhZRbK+xOo='
RfcAccept ==
  << 115, 51, 112, 80, 76, 77, 66, 105, 84, 120, 97, 81, 57, 107, 89, 71, 122,
     122, 104, 90, 82, 98, 75, 43, 120, 79, 111, 61 >>

\* C13: for the key dGhlIHNhbXBsZSBub25jZQ== the function returns
\* s3pPLMBiTxaQ9kYGzzhZRbK+xOo=.
C13_SampleAccept ==
  (hs.stage = "digest" /\ hs.key = SampleKey) => hs.accept = RfcAccept

(***************************************************************************)
(* Properties of the connections, continued (checked under Spec).          *)
(***************************************************************************)
\* C14: a CLOSE frame is answered by the local close sequence and is never
\* delivered as a data event: as soon as a read has decoded the CLOSE frame
\* the peer sent, a CLOSE frame has been written to the socket and no data
\* event carries the opcode CLOSE.
C14_CloseFrameNotDelivered ==
  \A c \in Conn :
    \A i \in 1 .. Len(frames[c]) :
      (frames[c][i].opcode = OP_CODES.CLOSE /\ Len(DataEvents(c)) >= i) =>
        /\ DataEvents(c)[i].opcode # OP_CODES.CLOSE
        /\ \E j \in DOMAIN written[c] :
             /\ written[c][j].kind = "frame"
             /\ written[c][j].bytes[1] % 16 = OP_CODES.CLOSE

\* C15: a frame whose opcode is not one of OP_CODES is never delivered as a
\* data event: every data event carries one of the five opcodes.
C15_UnknownOpcodeRejected ==
  \A c \in Conn :
    \A i \in DOMAIN events[c] :
      events[c][i].type = "data" => events[c][i].opcode \in OpcodeValues

\* a CLOSE frame exchange: the peer sent a CLOSE frame and the connection
\* wrote one
CloseExchanged(c) ==
  /\ \E i \in DOMAIN frames[c] : frames[c][i].opcode = OP_CODES.CLOSE
  /\ \E j \in DOMAIN written[c] :
       written[c][j].kind = "frame" /\ written[c][j].bytes[1] % 16 = OP_CODES.CLOSE

\* C16: once the socket of a connection has closed with no CLOSE frame
\* exchange before, the connection has emitted one close event and its
\* code is 1006.
C16_AbnormalClosureCode ==
  \A c \in Conn :
    (signals[c] > 0 /\ ~CloseExchanged(c)) =>
      /\ CloseCount(c) = 1
      /\ \A i \in DOMAIN events[c] :
           events[c][i].type = "close" => events[c][i].code = 1006

\* the socket closed before any frame arrived: one close event, code 1006
C16_Witness ==
  \E c \in created :
    /\ frames[c] = << >>
    /\ signals[c] = 1
    /\ Len(events[c]) = 1
    /\ events[c][1].code = 1006

\* C17: a socket read, a socket 'close' notification or a send call on one
\* connection leaves the buffer, the closed flag and the events of every
\* other connection as they were.
C17_Independent ==
  [][\A d \in Conn :
       (\/ Len(wire'[d]) < Len(wire[d])
        \/ signals'[d] # signals[d]
        \/ (nSends' # nSends /\ lastSend'.conn = d)) =>
         \A c \in Conn \ {d} :
           /\ buffer'[c] = buffer[c]
           /\ closed'[c] = closed[c]
           /\ events'[c] = events[c]]_vars

\* one connection holds part of a frame while the other has been closed
\* and then sent on
C17_Witness ==
  \E c, d \in created :
    /\ c # d
    /\ buffer[c] # << >>
    /\ ~closed[c]
    /\ closed[d]
    /\ lastSend.conn = d

HandshakeResponses ==
  { ResponseHead \o hashWebSocketKey(reqKey) \o ResponseTail :
      reqKey \in RequestKeys }

\* C19: a connection that exists has written the 101 response, carrying the
\* value of hashWebSocketKey for the request's key, as its first write and
\* nowhere else; a connection that does not exist yet has written nothing
\* and emitted nothing, so the response precedes every frame and every
\* event.
C19_HandshakeFirst ==
  \A c \in Conn :
    IF c \in created
      THEN /\ written[c] # << >>
           /\ written[c][1].kind = "handshake"
           /\ written[c][1].bytes \in HandshakeResponses
           /\ \A j \in 2 .. Len(written[c]) : written[c][j].kind = "frame"
      ELSE written[c] = << >> /\ events[c] = << >> /\ wire[c] = << >>

\* a connection that wrote two frames after the response and emitted a
\* data event
C19_Witness ==
  \E c \in created :
    /\ Len(written[c]) = 3
    /\ \E i \in DOMAIN events[c] : events[c][i].type = "data"

(***************************************************************************)
(* Properties of the codec, continued (checked under SpecCodec).           *)
(***************************************************************************)
\* C20: for a payload of L bytes the encoder returns L + 2 bytes when
\* L < 126, L + 4 bytes when 126 <= L < 65536 and L + 10 bytes otherwise,
\* and the last L bytes returned are the payload.
C20_OutputLength ==
  Encoded =>
    LET L == Len(codec.payload)
        buf == codec.encoded.buf
    IN  /\ ~codec.encoded.threw
        /\ Len(buf) = L + (IF L < 126 THEN 2 ELSE IF L < 65536 THEN 4 ELSE 10)
        /\ SubSeq(buf, Len(buf) - L + 1, Len(buf)) = codec.payload

====
